---- MODULE Spec2Model ----
(***************************************************************************)
(* A model of unifold/dataset.py: the single-entity loaders and their      *)
(* bounded feature cache, the assembly builder `load`, the scoped-seed     *)
(* draws of `process`, the cross-link feature builder, and the id maps     *)
(* and chain filter of the sampling datasets.                              *)
(*                                                                         *)
(* Identifiers (strings in the source) are tuples of one-character         *)
(* strings, so that str.split and f-string concatenation are computed.     *)
(* Python dicts are sequences of <<key, value>> pairs with distinct keys,  *)
(* in insertion order.                                                     *)
(***************************************************************************)
EXTENDS Integers, Sequences, FiniteSets, TLC

VARIABLES
    call,       \* the pending call of a function: [fn |-> name, ...arguments]
    result,     \* what the call returned or raised; NoResult before it ran
    cache,      \* load_single_feature's lru cache: entries, least recent first
    uses,       \* history: the keys load_single_feature was called with, each
                \* once, in the order of their last call
    np_state,   \* the global numpy random generator's state
    earlier,    \* history: the result of an earlier call (process: the first;
                \* process_ap: the one before), in a tuple; empty before
    dataset     \* the data set object the constructor built; NoDataset before

vars == <<call, result, cache, uses, np_state, earlier, dataset>>

(***************************************************************************)
(* Bounds of the model.                                                    *)
(***************************************************************************)
MaxRefs == 2        \* longest label list of one sequence in multi_label

MaxAssembly == 2    \* most chains of one assembly in pdb_assembly

MaxMaxChains == 2   \* largest configured max_chains

MaxLoadChains == 2  \* most chains of one call of load

MaxSeed == 1        \* largest seed of a data set

MaxDataIdx == 3     \* largest index of an example

BatchSize == 2      \* examples of one batch

MaxRecyclingIters == 3  \* largest configured max_recycling_iters

RngModulus == 8     \* number of states of the random generator

MaxChainLen == 2    \* most residues of one chain of a cross-linked complex

MaxAsymIds == 5     \* longest id sequence given to calculate_offsets

XlRes == 2          \* residues of the array bin_xl fills

MaxLinks == 3       \* most links given to bin_xl

(***************************************************************************)
(* Python values.                                                          *)
(***************************************************************************)
\* None, where a string may stand
None == "None"

NoResult == [status |-> "pending"]

NoDataset == [class |-> "None"]

Returned(v) == [status |-> "ok", value |-> v]

Raised(e) == [status |-> e]

Range(s) == {s[i] : i \in 1..Len(s)}

SeqsUpTo(S, n) == UNION {[1..k -> S] : k \in 0..n}

\* dict operations: k in d, d[k], d[k] = v, list(d.keys())
DictHas(d, k) == \E i \in 1..Len(d) : d[i][1] = k

DictGet(d, k) == d[CHOOSE i \in 1..Len(d) : d[i][1] = k][2]

DictSet(d, k, v) ==
    IF DictHas(d, k)
    THEN [i \in 1..Len(d) |-> IF d[i][1] = k THEN <<k, v>> ELSE d[i]]
    ELSE Append(d, <<k, v>>)

DictKeys(d) == [i \in 1..Len(d) |-> d[i][1]]

IsDict(d) == \A i, j \in 1..Len(d) : d[i][1] = d[j][1] => i = j

(***************************************************************************)
(* Identifiers.                                                            *)
(***************************************************************************)
\* the sequence ids of the data set, in the order of its JSON files
SeqIdList == <<"sA", "sB">>

SeqIds == {SeqIdList[i] : i \in 1..Len(SeqIdList)}

StructIds == {<<"p">>, <<"q">>}

ChainNames == {<<"A">>, <<"B">>}

\* f"{chain}_{chain_id}", pdb_id + "_" + id
JoinChain(pdb, id) == pdb \o <<"_">> \o id

\* the label ids of the data set: the chains of the structures, and one id
\* without "_", in a fixed order
LabelList ==
    << JoinChain(<<"p">>, <<"A">>), JoinChain(<<"p">>, <<"B">>),
       JoinChain(<<"q">>, <<"A">>), JoinChain(<<"q">>, <<"B">>), <<"r">> >>

LabelIds == Range(LabelList)

\* chain.split("_")[0]
get_pdb_name(chain) ==
    IF \E i \in 1..Len(chain) : chain[i] = "_"
    THEN SubSeq(chain, 1,
                (CHOOSE i \in 1..Len(chain) :
                    /\ chain[i] = "_"
                    /\ \A j \in 1..(i - 1) : chain[j] # "_") - 1)
    ELSE chain

(***************************************************************************)
(* UnifoldDataset._inverse_map                                             *)
(***************************************************************************)
\* a store that overwrites without the assertion
InverseMapStore_NoAssert(inv, ent, ref) == Returned(DictSet(inv, ref, ent))

\* the body of the inner loop for one ref: the assertion, then the store
InverseMapStore(inv, ent, ref) ==
    IF DictHas(inv, ref) /\ DictGet(inv, ref) # ent
    THEN Raised("AssertionError")
    ELSE Returned(DictSet(inv, ref, ent))

RECURSIVE InverseMapRefs(_, _, _, _)
InverseMapRefs(inv, ent, refs, i) ==
    IF i > Len(refs) THEN Returned(inv)
    ELSE LET r == InverseMapStore(inv, ent, refs[i])
         IN  IF r.status # "ok" THEN r
             ELSE InverseMapRefs(r.value, ent, refs, i + 1)

RECURSIVE InverseMapItems(_, _, _)
InverseMapItems(inv, mapping, i) ==
    IF i > Len(mapping) THEN Returned(inv)
    ELSE LET r == InverseMapRefs(inv, mapping[i][1], mapping[i][2], 1)
         IN  IF r.status # "ok" THEN r
             ELSE InverseMapItems(r.value, mapping, i + 1)

inverse_map(mapping) == InverseMapItems(<<>>, mapping, 1)

\* multi_label files: a JSON object sequence id -> list of label ids
RefLists == SeqsUpTo(LabelIds, MaxRefs)

MultiLabels ==
    {m \in SeqsUpTo(SeqIds \X RefLists, Cardinality(SeqIds)) : IsDict(m)}

InverseMapCalls == {[fn |-> "_inverse_map", mapping |-> m] : m \in MultiLabels}

InverseMap ==
    /\ call.fn = "_inverse_map"
    /\ result = NoResult
    /\ result' = inverse_map(call.mapping)
    /\ UNCHANGED <<dataset, call, cache, uses, np_state, earlier>>

(***************************************************************************)
(* The data set's files, as UnifoldDataset.__init__ and                    *)
(* UnifoldMultimerDataset.__init__ read them.                              *)
(***************************************************************************)
Absent == <<"-">>

\* <mode>_multi_label.json in which each label id is listed under at most one
\* sequence id: owner[l] is that sequence id, or Absent
Owners == [LabelIds -> SeqIds \cup {Absent}]

MultiLabelOf(owner) ==
    [i \in 1..Len(SeqIdList) |->
        <<SeqIdList[i], SelectSeq(LabelList, LAMBDA l : owner[l] = SeqIdList[i])>>]

\* <mode>_sample_weight.json: sequence id -> weight
SampleWeightFiles ==
    { << <<SeqIdList[1], w[1]>>, <<SeqIdList[2], w[2]>> >> : w \in {<<1, 3>>, <<2, 2>>} }

\* pdb_assembly.json: structure id -> {"chains": [...], "opers": [...]};
\* the i-th operation is named by its position, the first being "I"
AssemblyChainLists == SeqsUpTo(ChainNames, MaxAssembly)

OpersOf(chains) == [i \in 1..Len(chains) |-> IF i = 1 THEN "I" ELSE "R"]

AssemblyEntry(pdb, chains) == <<pdb, [chains |-> chains, opers |-> OpersOf(chains)]>>

PdbAssemblies ==
    { (IF a[1] = <<Absent>> THEN <<>> ELSE <<AssemblyEntry(<<"p">>, a[1])>>)
      \o (IF a[2] = <<Absent>> THEN <<>> ELSE <<AssemblyEntry(<<"q">>, a[2])>>)
      : a \in (AssemblyChainLists \cup {<<Absent>>})
              \X (AssemblyChainLists \cup {<<Absent>>}) }

\* self.sample_weight of UnifoldDataset.__init__: one weight per chain, its
\* sequence's
RECURSIVE ChainSampleWeight(_, _, _, _)
ChainSampleWeight(acc, inverse_multi_label, sample_weight, i) ==
    IF i > Len(inverse_multi_label) THEN acc
    ELSE LET chain  == inverse_multi_label[i][1]
             entity == inverse_multi_label[i][2]
         IN  ChainSampleWeight(DictSet(acc, chain, DictGet(sample_weight, entity)),
                               inverse_multi_label, sample_weight, i + 1)

(***************************************************************************)
(* UnifoldMultimerDataset.get_chains and filter_pdb_by_max_chains          *)
(***************************************************************************)
RECURSIVE GetChainsFrom(_, _, _)
GetChainsFrom(pdb_chains, canon_chain_map, i) ==
    IF i > Len(canon_chain_map) THEN pdb_chains
    ELSE LET chain == canon_chain_map[i][1]
             pdb   == get_pdb_name(chain)
             had   == IF DictHas(pdb_chains, pdb) THEN DictGet(pdb_chains, pdb) ELSE <<>>
         IN  GetChainsFrom(DictSet(pdb_chains, pdb, Append(had, chain)),
                           canon_chain_map, i + 1)

get_chains(canon_chain_map) == GetChainsFrom(<<>>, canon_chain_map, 1)

\* a check that lets every chain list pass
list_overlaps_Always(a, b) == TRUE

list_overlaps(a, b) == \A i \in 1..Len(a) : \E j \in 1..Len(b) : b[j] = a[i]

\* the size test written with < for <=
FilterKeeps_StrictSize(chain, pdb_chains, pdb_assembly, max_chains, inverse_labels) ==
    IF DictHas(pdb_assembly, chain)
    THEN LET chains == DictGet(pdb_assembly, chain).chains
             curr_chains == [k \in 1..Len(chains) |-> JoinChain(chain, chains[k])]
         IN  /\ Len(chains) < max_chains
             /\ list_overlaps(curr_chains, DictKeys(inverse_labels))
    ELSE Len(DictGet(pdb_chains, chain)) = 1

\* the condition under which the loop stores pdb_chains[chain]
FilterKeeps(chain, pdb_chains, pdb_assembly, max_chains, inverse_labels) ==
    IF DictHas(pdb_assembly, chain)
    THEN LET chains == DictGet(pdb_assembly, chain).chains
             curr_chains == [k \in 1..Len(chains) |-> JoinChain(chain, chains[k])]
         IN  /\ Len(chains) <= max_chains
             /\ list_overlaps(curr_chains, DictKeys(inverse_labels))
    ELSE Len(DictGet(pdb_chains, chain)) = 1

RECURSIVE FilterPdbs(_, _, _, _, _, _)
FilterPdbs(new_pdb_chains, pdb_chains, pdb_assembly, max_chains, inverse_labels, i) ==
    IF i > Len(pdb_chains) THEN new_pdb_chains
    ELSE LET chain == pdb_chains[i][1]
             next  == IF FilterKeeps(chain, pdb_chains, pdb_assembly, max_chains,
                                     inverse_labels)
                      THEN DictSet(new_pdb_chains, chain, DictGet(pdb_chains, chain))
                      ELSE new_pdb_chains
         IN  FilterPdbs(next, pdb_chains, pdb_assembly, max_chains, inverse_labels, i + 1)

filter_pdb_by_max_chains(pdb_chains, pdb_assembly, sample_weight, max_chains, inverse_labels) ==
    LET new_pdb_chains ==
            FilterPdbs(<<>>, pdb_chains, pdb_assembly, max_chains, inverse_labels, 1)
        new_sample_weight ==
            SelectSeq(sample_weight,
                      LAMBDA kv : DictHas(new_pdb_chains, get_pdb_name(kv[1])))
    IN  <<new_pdb_chains, new_sample_weight>>

\* the arguments UnifoldMultimerDataset.__init__ passes in train mode
FilterCalls ==
    { [fn |-> "filter_pdb_by_max_chains", multi_label |-> MultiLabelOf(o),
       sample_weight |-> w, pdb_assembly |-> a, max_chains |-> n]
      : o \in Owners, w \in SampleWeightFiles, a \in PdbAssemblies,
        n \in 1..MaxMaxChains }

FilterInverse == inverse_map(call.multi_label).value

FilterPdbChains == get_chains(FilterInverse)

FilterSampleWeight == ChainSampleWeight(<<>>, FilterInverse, call.sample_weight, 1)

FilterPdbByMaxChains ==
    /\ call.fn = "filter_pdb_by_max_chains"
    /\ result = NoResult
    /\ result' = Returned(filter_pdb_by_max_chains(FilterPdbChains, call.pdb_assembly,
                              FilterSampleWeight, call.max_chains, FilterInverse))
    /\ UNCHANGED <<dataset, call, cache, uses, np_state, earlier>>

(***************************************************************************)
(* The files of the feature and label directories.                         *)
(***************************************************************************)
PdbFeatures == "pdb_features"

PdbUniprots == "pdb_uniprots"

PdbLabels == "pdb_labels"

\* the number of residues of a sequence: distinct per sequence id
SeqLength(sequence_id) ==
    IF sequence_id \in SeqIds
    THEN 1 + CHOOSE i \in 1..Len(SeqIdList) : SeqIdList[i] = sequence_id
    ELSE 1

\* convert_monomer_features(utils.load_pickle(<dir>/<sequence_id>.feature.pkl.gz))
FeaturePickle(dir, sequence_id) ==
    [aatype          |-> <<"aatype", dir, sequence_id>>,
     seq_length      |-> SeqLength(sequence_id),
     msa             |-> <<<<"msa", dir, sequence_id>>>>,
     deletion_matrix |-> <<<<"deletion_matrix", dir, sequence_id>>>>]

\* utils.load_pickle(<dir>/<sequence_id>.uniprot.pkl.gz)
UniprotPickle(dir, sequence_id) ==
    [msa             |-> <<<<"msa", dir, sequence_id>>>>,
     deletion_matrix |-> <<<<"deletion_matrix", dir, sequence_id>>>>]

\* merge_msas: the rows of the second alignment after the first's
merge_msas(msa, deletion_matrix, uniprot_msa, uniprot_deletion_matrix) ==
    <<msa \o uniprot_msa, deletion_matrix \o uniprot_deletion_matrix>>

\* utils.convert_all_seq_feature: the alignment fields under suffixed keys
convert_all_seq_feature(all_seq_feature) ==
    [msa_all_seq                     |-> all_seq_feature.msa,
     msa_species_identifiers_all_seq |-> <<"species", all_seq_feature.msa>>,
     deletion_matrix_all_seq         |-> all_seq_feature.deletion_matrix]

(***************************************************************************)
(* load_single_feature: the function under the cache decorator             *)
(***************************************************************************)
load_single_feature_body(sequence_id, monomer_feature_dir, uniprot_msa_dir, is_monomer) ==
    LET chain_feature == FeaturePickle(monomer_feature_dir, sequence_id)
    IN  IF uniprot_msa_dir = None THEN chain_feature
        ELSE LET all_seq_feature == UniprotPickle(uniprot_msa_dir, sequence_id)
             IN  IF is_monomer
                 THEN LET merged == merge_msas(chain_feature.msa,
                                               chain_feature.deletion_matrix,
                                               all_seq_feature.msa,
                                               all_seq_feature.deletion_matrix)
                      IN  [chain_feature EXCEPT !.msa = merged[1],
                                                !.deletion_matrix = merged[2]]
                 ELSE convert_all_seq_feature(all_seq_feature) @@ chain_feature

\* a cache of half the size
CacheMaxSize_Half == 8 \div 2

\* @utils.lru_cache(maxsize=8, copy=True)
CacheMaxSize == 8

\* a decorator that hands out the cached object itself
CacheCopy_Shared == FALSE

CacheCopy == TRUE

\* the cache key of a call: its arguments
CacheKey(sequence_id, monomer_feature_dir, uniprot_msa_dir, is_monomer) ==
    <<sequence_id, monomer_feature_dir, uniprot_msa_dir, is_monomer>>

CacheHas(c, key) == \E i \in 1..Len(c) : c[i].key = key

CacheValue(c, key) == c[CHOOSE i \in 1..Len(c) : c[i].key = key].value

\* the least recently used entry leaves a cache grown beyond maxsize
LruEvict(c) == IF Len(c) > CacheMaxSize THEN Tail(c) ELSE c

\* the cache after a call with the key: a hit moves the entry to the most
\* recent end, a miss computes the value, stores it there and evicts
LruAfter(c, key, computed) ==
    IF CacheHas(c, key)
    THEN SelectSeq(c, LAMBDA e : e.key # key)
            \o <<[key |-> key, value |-> CacheValue(c, key)]>>
    ELSE LruEvict(Append(c, [key |-> key, value |-> computed]))

\* the value a call with the key hands out
LruValue(c, key, computed) == IF CacheHas(c, key) THEN CacheValue(c, key) ELSE computed

\* history: the key becomes the most recently used one
UsesAfter(u, key) == SelectSeq(u, LAMBDA k : k # key) \o <<key>>

\* the keys load_single_feature is called with: one more than the cache
\* holds, so that a full cache meets a new key; each sequence as
\* UnifoldDataset.__getitem__ loads it, and the first also as
\* UnifoldMultimerDataset.__getitem__ does
LruSeqIds == <<"s1", "s2", "s3", "s4", "s5", "s6", "s7", "s8">>

LruKeys ==
    {CacheKey(LruSeqIds[i], PdbFeatures, None, TRUE) : i \in 1..CacheMaxSize}
    \cup {CacheKey(LruSeqIds[1], PdbFeatures, PdbUniprots, FALSE)}

\* one call of the decorated load_single_feature
LoadSingleFeature ==
    /\ call.fn = "load_single_feature"
    /\ \E key \in LruKeys :
          LET computed == load_single_feature_body(key[1], key[2], key[3], key[4])
          IN  /\ result' = Returned([key |-> key, value |-> LruValue(cache, key, computed)])
              /\ cache' = LruAfter(cache, key, computed)
              /\ uses' = UsesAfter(uses, key)
    /\ UNCHANGED <<dataset, call, np_state, earlier>>

InitLru ==
    /\ call = [fn |-> "load_single_feature"]
    /\ result = NoResult
    /\ cache = <<>>
    /\ uses = <<>>
    /\ np_state = 0
    /\ earlier = <<>>
    /\ dataset = NoDataset

NextLru == LoadSingleFeature

SpecLru == InitLru /\ [][NextLru]_vars

(***************************************************************************)
(* process_label and load_single_label                                     *)
(***************************************************************************)
\* symmetry operations: None, "I", or a (rotation, translation) pair, the
\* rotation a quarter turn about z
OpNone == [kind |-> "None"]

OpI == [kind |-> "I"]

OpRT == [kind |-> "RT", rot |-> <<0, -1, 0, 1, 0, 0, 0, 0, 1>>, trans |-> <<1, 0, 0>>]

\* all_atom_positions @ rot.T + trans, for the coordinates of one atom
process_label(all_atom_positions, operation) ==
    IF operation.kind = "I" THEN all_atom_positions
    ELSE LET rot(i, j) == operation.rot[3 * (i - 1) + j]
         IN  [j \in 1..3 |->
                 all_atom_positions[1] * rot(j, 1) + all_atom_positions[2] * rot(j, 2)
                 + all_atom_positions[3] * rot(j, 3) + operation.trans[j]]

LabelKeys == {"aatype", "all_atom_positions", "all_atom_mask", "resolution"}

\* a projection that keeps every stored key
KeepLabelKeys_All(label) == label

\* {k: v for k, v in label.items() if k in [...]}
KeepLabelKeys(label) == [k \in DOMAIN label \cap LabelKeys |-> label[k]]

\* stored is utils.load_pickle(<label_dir>/<label_id>.label.pkl.gz)
load_single_label(stored, symmetry_operation) ==
    IF symmetry_operation # OpNone /\ "all_atom_positions" \notin DOMAIN stored
    THEN Raised("KeyError")
    ELSE LET label == IF symmetry_operation # OpNone
                      THEN [stored EXCEPT !["all_atom_positions"] =
                               process_label(stored["all_atom_positions"],
                                             symmetry_operation)]
                      ELSE stored
         IN  Returned(KeepLabelKeys(label))

\* a label file of the data set: the four fields and two more
LabelPickle(label_dir, label_id) ==
    [aatype             |-> <<"aatype", label_dir, label_id>>,
     all_atom_positions |-> <<Len(label_id), 2, 3>>,
     all_atom_mask      |-> <<"all_atom_mask", label_dir, label_id>>,
     resolution         |-> <<"resolution", label_dir, label_id>>,
     chain_id           |-> <<"chain_id", label_dir, label_id>>,
     release_date       |-> <<"release_date", label_dir, label_id>>]

\* label files that hold all four keys or lack one of them
StoredLabels ==
    {[k \in keys |-> LabelPickle(PdbLabels, LabelList[1])[k]] :
        keys \in {ks \in SUBSET DOMAIN LabelPickle(PdbLabels, LabelList[1]) :
                     Cardinality(LabelKeys \ ks) <= 1}}

LoadSingleLabelCalls ==
    {[fn |-> "load_single_label", stored |-> st, symmetry_operation |-> o]
        : st \in StoredLabels, o \in {OpNone, OpI, OpRT}}

LoadSingleLabel ==
    /\ call.fn = "load_single_label"
    /\ result = NoResult
    /\ result' = load_single_label(call.stored, call.symmetry_operation)
    /\ UNCHANGED <<dataset, call, cache, uses, np_state, earlier>>

(***************************************************************************)
(* load                                                                    *)
(***************************************************************************)
NotGiven == [given |-> FALSE]

Given(v) == [given |-> TRUE, v |-> v]

ChainOrders(n) == {p \in [1..n -> 1..n] : \A i, j \in 1..n : p[i] = p[j] => i = j}

\* all_chain_features = [load_single_feature(s, ...) for s in sequence_ids]:
\* the cache, the history and the records handed out after the calls from i on
RECURSIVE LoadFeatures(_, _, _, _, _, _)
LoadFeatures(c, u, loaded, hits, args, i) ==
    IF i > Len(args.sequence_ids)
    THEN [cache |-> c, uses |-> u, loaded |-> loaded, hits |-> hits]
    ELSE LET key == CacheKey(args.sequence_ids[i], args.monomer_feature_dir,
                             args.uniprot_msa_dir, args.is_monomer)
             computed == load_single_feature_body(key[1], key[2], key[3], key[4])
         IN  LoadFeatures(LruAfter(c, key, computed), UsesAfter(u, key),
                          Append(loaded, LruValue(c, key, computed)),
                          hits + (IF CacheHas(c, key) THEN 1 ELSE 0), args, i + 1)

\* the object the i-th call handed out: a copy of its own, or the cached
\* object, which every call with that sequence id hands out
ObjOf(sequence_ids, i) ==
    IF CacheCopy THEN i
    ELSE CHOOSE j \in 1..i :
            /\ sequence_ids[j] = sequence_ids[i]
            /\ \A k \in 1..(j - 1) : sequence_ids[k] # sequence_ids[i]

\* all_chain_labels = [load_single_label(l, label_dir, o) for l, o in zip(...)]
LoadLabels(label_ids, label_dir, symmetry_operations) ==
    [i \in 1..(IF Len(label_ids) < Len(symmetry_operations)
               THEN Len(label_ids) ELSE Len(symmetry_operations)) |->
        load_single_label(LabelPickle(label_dir, label_ids[i]),
                          symmetry_operations[i]).value]

\* [f.update(l) for f, l in zip(all_chain_features, all_chain_labels)], from
\* the i-th pair on; objs maps each object to its record
RECURSIVE UpdateLabels(_, _, _, _)
UpdateLabels(objs, sequence_ids, labels, i) ==
    IF i > Len(sequence_ids) \/ i > Len(labels) THEN objs
    ELSE LET o == ObjOf(sequence_ids, i)
         IN  UpdateLabels([objs EXCEPT ![o] = labels[i] @@ objs[o]],
                          sequence_ids, labels, i + 1)

\* add_assembly_features: the chain at final position i is the one loaded
\* perm[i]-th, and its record gets the bookkeeping fields of its position
RECURSIVE AddAssemblyFeatures(_, _, _, _)
AddAssemblyFeatures(objs, sequence_ids, perm, i) ==
    IF i > Len(sequence_ids) THEN objs
    ELSE LET o == ObjOf(sequence_ids, perm[i])
         IN  AddAssemblyFeatures([objs EXCEPT ![o] = [asym_id |-> i] @@ objs[o]],
                                 sequence_ids, perm, i + 1)

\* labels handed back as they were loaded, not read from the features
LabelsBack_AsLoaded(final, loaded_labels) == loaded_labels

\* get labels back from features: the four fields of each record, in the
\* order of the records
LabelsBack(final, loaded_labels) ==
    [i \in 1..Len(final) |-> [k \in LabelKeys |-> final[i][k]]]

\* the cache after the records it shares with the call were changed in place
CacheShared(c, sequence_ids, args, objs) ==
    IF CacheCopy THEN c
    ELSE [e \in 1..Len(c) |->
             IF \E i \in 1..Len(sequence_ids) :
                   c[e].key = CacheKey(sequence_ids[i], args.monomer_feature_dir,
                                       args.uniprot_msa_dir, args.is_monomer)
             THEN [c[e] EXCEPT !.value =
                      objs[ObjOf(sequence_ids,
                                 CHOOSE i \in 1..Len(sequence_ids) :
                                    c[e].key[1] = sequence_ids[i])]]
             ELSE c[e]]

\* load(**args) on cache c and history u, add_assembly_features ordering the
\* chains by perm: what it returns or raises, with the records and the number
\* of label files it read, and the cache and history it leaves
load(args, c, u, perm) ==
    LET sequence_ids == args.sequence_ids
        n == Len(sequence_ids)
        got == LoadFeatures(c, u, <<>>, 0, args, 1)
        objs0 == [o \in 1..n |-> got.loaded[o]]
        with_labels == args.label_ids.given
        label_ids == args.label_ids.v
        symmetry_operations ==
            IF args.symmetry_operations.given THEN args.symmetry_operations.v
            ELSE [i \in 1..Len(label_ids) |-> OpI]
        all_chain_labels == LoadLabels(label_ids, args.label_dir, symmetry_operations)
        objs1 == IF with_labels
                 THEN UpdateLabels(objs0, sequence_ids, all_chain_labels, 1)
                 ELSE objs0
        objs2 == AddAssemblyFeatures(objs1, sequence_ids, perm, 1)
        final == [i \in 1..n |-> objs2[ObjOf(sequence_ids, perm[i])]]
        asym_len == [i \in 1..n |-> final[i].seq_length]
        objs3 == [objs2 EXCEPT ![ObjOf(sequence_ids, perm[1])] =
                     [asym_len |-> asym_len] @@ @]
        ghost(reads) == [loaded |-> got.loaded, hits |-> got.hits,
                         label_reads |-> reads, order |-> perm]
    IN  IF with_labels /\ (Len(label_ids) # n \/ args.label_dir = None)
        THEN [result |-> Raised("AssertionError") @@ ghost(0),
              cache |-> got.cache, uses |-> got.uses]
        ELSE IF with_labels /\ \E i \in 1..n : ~(LabelKeys \subseteq DOMAIN final[i])
        THEN [result |-> Raised("KeyError") @@ ghost(Len(all_chain_labels)),
              cache |-> CacheShared(got.cache, sequence_ids, args, objs2),
              uses |-> got.uses]
        ELSE IF ~args.is_monomer
        THEN \* pair_and_merge, then post_process, a name the module never binds
             [result |-> Raised("NameError")
                         @@ ghost(IF with_labels THEN Len(all_chain_labels) ELSE 0),
              cache |-> CacheShared(got.cache, sequence_ids, args, objs2),
              uses |-> got.uses]
        ELSE [result |->
                 Returned([features |-> objs3[ObjOf(sequence_ids, perm[1])],
                           labels |-> IF with_labels
                                      THEN Given(LabelsBack(final, all_chain_labels))
                                      ELSE NotGiven])
                 @@ ghost(IF with_labels THEN Len(all_chain_labels) ELSE 0),
              cache |-> CacheShared(got.cache, sequence_ids, args, objs3),
              uses |-> got.uses]

\* the label ids and operations load is called with
LoadLabelIds == {LabelList[1], LabelList[2], LabelList[5]}

LoadOperations(n) ==
    {NotGiven} \cup {Given(o) : o \in [1..n -> {OpI, OpRT}]}
    \cup (IF n > 1 THEN {Given([i \in 1..(n - 1) |-> OpI])} ELSE {})

LoadCalls ==
    { [fn |-> "load", sequence_ids |-> s, monomer_feature_dir |-> PdbFeatures,
       uniprot_msa_dir |-> m, label_ids |-> NotGiven, label_dir |-> None,
       symmetry_operations |-> NotGiven, is_monomer |-> b]
      : s \in SeqsUpTo(SeqIds, MaxLoadChains) \ {<<>>}, m \in {None, PdbUniprots},
        b \in BOOLEAN }
    \cup
    UNION { { [fn |-> "load", sequence_ids |-> s, monomer_feature_dir |-> PdbFeatures,
               uniprot_msa_dir |-> m, label_ids |-> Given(l), label_dir |-> d,
               symmetry_operations |-> o, is_monomer |-> b]
              : s \in SeqsUpTo(SeqIds, MaxLoadChains) \ {<<>>},
                m \in {None, PdbUniprots}, d \in {None, PdbLabels},
                o \in LoadOperations(Len(l)), b \in BOOLEAN }
            : l \in SeqsUpTo(LoadLabelIds, MaxLoadChains) \ {<<>>} }

\* one call of load; the data sets call it again for a later index
Load ==
    /\ call.fn = "load"
    /\ \E perm \in ChainOrders(Len(call.sequence_ids)) :
          LET r == load(call, cache, uses, perm)
          IN  /\ result' = r.result
              /\ cache' = r.cache
              /\ uses' = r.uses
    /\ UNCHANGED <<dataset, call, np_state, earlier>>

InitLoad ==
    /\ call \in LoadCalls \cup LoadSingleLabelCalls
    /\ result = NoResult
    /\ cache = <<>>
    /\ uses = <<>>
    /\ np_state = 0
    /\ earlier = <<>>
    /\ dataset = NoDataset

NextLoad ==
    \/ Load
    \/ LoadSingleLabel

SpecLoad == InitLoad /\ [][NextLoad]_vars

(***************************************************************************)
(* The global numpy random generator and data_utils.numpy_seed             *)
(***************************************************************************)
\* the generator's state after one draw
NextState(state) == (5 * state + 3) % RngModulus

\* np.random.seed(seed)
SeededState(seed) == seed % RngModulus

\* np.random.randint(low, high): the value drawn, and the state after
RandInt(state, low, high) ==
    [value |-> low + (NextState(state) % (high - low)), state |-> NextState(state)]

\* np.random.rand(), in units of 1 / RngModulus: the value drawn, and the
\* state after
Rand(state) == [value |-> NextState(state), state |-> NextState(state)]

\* numpy_seed(seed, addl_seed, key=key): the seed the scope seeds the
\* generator with, hashed from the three
ScopedSeed(seed, addl_seed, key) ==
    7 * seed + 3 * addl_seed
    + (IF key = "recycling" THEN 1 ELSE IF key = "protein_feature" THEN 2 ELSE 5)

\* the state inside the scope at its entry; the state before is saved
NumpySeedEnter(state, seed, addl_seed, key) ==
    SeededState(ScopedSeed(seed, addl_seed, key))

\* the state after the scope: the saved one
NumpySeedExit(saved, inside) == saved

(***************************************************************************)
(* process                                                                 *)
(***************************************************************************)
\* the draws of train mode made on the global generator, with no scope
ProcessRecycling_Unscoped(state, config, mode, seed, batch_idx) ==
    IF mode = "train"
    THEN LET num_iters == RandInt(state, 0, config.max_recycling_iters + 1)
             clamped == Rand(num_iters.state)
         IN  [num_iters |-> num_iters.value,
              use_clamped_fape |-> clamped.value < config.use_clamped_fape_prob,
              state |-> clamped.state]
    ELSE [num_iters |-> config.max_recycling_iters, use_clamped_fape |-> TRUE,
          state |-> state]

\* lines 182-189: num_iters and use_clamped_fape, and the global generator's
\* state after them
ProcessRecycling(state, config, mode, seed, batch_idx) ==
    IF mode = "train"
    THEN LET inside == NumpySeedEnter(state, seed, batch_idx, "recycling")
             num_iters == RandInt(inside, 0, config.max_recycling_iters + 1)
             clamped == Rand(num_iters.state)
         IN  [num_iters |-> num_iters.value,
              use_clamped_fape |-> clamped.value < config.use_clamped_fape_prob,
              state |-> NumpySeedExit(state, clamped.state)]
    ELSE [num_iters |-> config.max_recycling_iters, use_clamped_fape |-> TRUE,
          state |-> state]

\* lines 202-203: crop_and_fix_size_seed, and the state after the scope
ProcessCropSeed(state, seed, data_idx) ==
    LET inside == NumpySeedEnter(state, seed, data_idx, "protein_feature")
        crop == RandInt(inside, 0, 63355)
    IN  [value |-> crop.value, state |-> NumpySeedExit(state, crop.state)]

\* process(config, mode, features, labels, seed, batch_idx, data_idx,
\* is_distillation) up to the feature processor: the fields it sets, and the
\* generator's state before it, after the recycling draws and at its end
process(state, args, seed, batch_idx, data_idx) ==
    LET recycling == ProcessRecycling(state, args.config, args.mode, seed, batch_idx)
        crop == ProcessCropSeed(recycling.state, seed, data_idx)
    IN  [status |-> "ok",
         value |-> [num_recycling_iters |-> recycling.num_iters,
                    use_clamped_fape |-> IF recycling.use_clamped_fape THEN 1 ELSE 0,
                    is_distillation |-> IF args.is_distillation THEN 1 ELSE 0,
                    msa_chains |-> args.msa_chains /\ ~args.is_distillation,
                    crop_and_fix_size_seed |-> crop.value],
         seed |-> seed, batch_idx |-> batch_idx, data_idx |-> data_idx,
         state_before |-> state, state_recycled |-> recycling.state,
         state_after |-> crop.state]

\* the configurations process is called with; use_clamped_fape_prob in
\* units of 1 / RngModulus
ProcessCalls ==
    { [fn |-> "process", mode |-> m,
       config |-> [max_recycling_iters |-> MaxRecyclingIters,
                   use_clamped_fape_prob |-> q],
       is_distillation |-> d, msa_chains |-> TRUE]
      : m \in {"train", "eval"}, q \in {RngModulus \div 2}, d \in BOOLEAN }

\* one call of process, as load_and_process makes it for the example idx of
\* a data set: batch_idx = idx // self.batch_size, data_idx = idx
Process ==
    /\ call.fn = "process"
    /\ \E seed \in 0..MaxSeed, idx \in 0..MaxDataIdx :
          LET r == process(np_state, call, seed, idx \div BatchSize, idx)
          IN  /\ result' = r
              /\ np_state' = r.state_after
              /\ earlier' = IF earlier = <<>> THEN <<r>> ELSE earlier
    /\ UNCHANGED <<dataset, call, cache, uses>>

\* a draw from the global generator made elsewhere in the program
UnrelatedDraw ==
    /\ call.fn = "process"
    /\ np_state' = NextState(np_state)
    /\ UNCHANGED <<dataset, call, result, cache, uses, earlier>>

InitRng ==
    /\ call \in ProcessCalls
    /\ result = NoResult
    /\ cache = <<>>
    /\ uses = <<>>
    /\ np_state = 0
    /\ earlier = <<>>
    /\ dataset = NoDataset

NextRng ==
    \/ Process
    \/ UnrelatedDraw

SpecRng == InitRng /\ [][NextRng]_vars

(***************************************************************************)
(* The cross-link feature builder                                          *)
(***************************************************************************)
\* np.unique(asym_ids): the distinct ids, ascending
Unique(asym_ids) ==
    LET ids == Range(asym_ids)
    IN  [i \in 1..Cardinality(ids) |->
            CHOOSE u \in ids : Cardinality({v \in ids : v < u}) = i - 1]

\* np.sum(asym_ids == u)
CountOf(asym_ids, u) == Cardinality({p \in 1..Len(asym_ids) : asym_ids[p] = u})

\* np.cumsum(a)
RECURSIVE SumTo(_, _)
SumTo(a, i) == IF i = 0 THEN 0 ELSE a[i] + SumTo(a, i - 1)

CumSum(a) == [i \in 1..Len(a) |-> SumTo(a, i)]

\* the cumulative sum of the lengths alone, without the leading 0
calculate_offsets_NoZero(asym_ids) ==
    LET unique_asym_ids == Unique(asym_ids)
    IN  CumSum([i \in 1..Len(unique_asym_ids) |-> CountOf(asym_ids, unique_asym_ids[i])])

calculate_offsets(asym_ids) ==
    LET unique_asym_ids == Unique(asym_ids)
        seq_lens == [i \in 1..Len(unique_asym_ids) |->
                        CountOf(asym_ids, unique_asym_ids[i])]
    IN  CumSum(<<0>> \o seq_lens)

\* the links of one pair of chains, shifted
ShiftLinks(links, offset1, offset2) ==
    [k \in 1..Len(links) |-> <<links[k][1] + offset1, links[k][2] + offset2, links[k][3]>>]

\* results after the pairs from (i, j) on; i and j count from 0
RECURSIVE CreateXlFrom(_, _, _, _, _, _)
CreateXlFrom(results, xl_pickle, offsets, descriptions, i, j) ==
    IF i >= Len(descriptions) THEN Returned(results)
    ELSE IF j >= Len(descriptions)
    THEN CreateXlFrom(results, xl_pickle, offsets, descriptions, i + 1, 0)
    ELSE LET chain1 == descriptions[i + 1]
             chain2 == descriptions[j + 1]
             found == /\ DictHas(xl_pickle, chain1)
                      /\ DictHas(DictGet(xl_pickle, chain1), chain2)
             links == DictGet(DictGet(xl_pickle, chain1), chain2)
         IN  IF ~found \/ links = <<>>
             THEN CreateXlFrom(results, xl_pickle, offsets, descriptions, i, j + 1)
             ELSE IF i + 1 > Len(offsets) \/ j + 1 > Len(offsets)
             THEN Raised("IndexError")
             ELSE CreateXlFrom(results \o ShiftLinks(links, offsets[i + 1], offsets[j + 1]),
                               xl_pickle, offsets, descriptions, i, j + 1)

\* the rows (start, end, fdr) of all pairs of chain descriptions; [] if none
create_xl_features(xl_pickle, offsets, descriptions) ==
    CreateXlFrom(<<>>, xl_pickle, offsets, descriptions, 0, 0)

\* xl_pickle is pickle.load(gzip.open(crosslinks))
process_xl_input(asym_id, xl_pickle, descriptions) ==
    create_xl_features(xl_pickle, calculate_offsets(asym_id), descriptions)

\* torch.arange(0, 1.05, 0.05), in hundredths
Bins == {5 * k : k \in 0..20}

\* torch.bucketize(v, bins): the number of boundaries below v
Bucketize(v) == Cardinality({b \in Bins : b < v})

\* the cell an index pair names; a negative index counts from the end
Cell(r1, r2, num_res) ==
    <<IF r1 < 0 THEN r1 + num_res ELSE r1, IF r2 < 0 THEN r2 + num_res ELSE r2>>

\* a write of the one cell [r1, r2] only
BinXlWrite_OneSided(output, r1, r2, fdr, num_res) ==
    [output EXCEPT ![Cell(r1, r2, num_res)] = Bucketize(100 - fdr)]

\* output[r1,r2,0] = output[r2,r1,0] = torch.bucketize(1-fdr, bins)
BinXlWrite(output, r1, r2, fdr, num_res) ==
    [output EXCEPT ![Cell(r1, r2, num_res)] = Bucketize(100 - fdr),
                   ![Cell(r2, r1, num_res)] = Bucketize(100 - fdr)]

RECURSIVE BinXlFrom(_, _, _, _)
BinXlFrom(output, xl, num_res, i) ==
    IF i > Len(xl) THEN Returned(output)
    ELSE IF \E r \in {xl[i][1], xl[i][2]} : r >= num_res \/ r < -num_res
    THEN Raised("IndexError")
    ELSE BinXlFrom(BinXlWrite(output, xl[i][1], xl[i][2], xl[i][3], num_res),
                   xl, num_res, i + 1)

\* bin_xl with torch.randperm(len(xl)) drawing perm: the cells of the
\* (num_res, num_res, 1) array, fdr in hundredths
bin_xl(xl, num_res, perm) ==
    BinXlFrom([c \in (0..(num_res - 1)) \X (0..(num_res - 1)) |-> 0],
              [k \in 1..Len(xl) |-> xl[perm[k]]], num_res, 1)

Zeros(num_res) == [c \in (0..(num_res - 1)) \X (0..(num_res - 1)) |-> 0]

\* lines 320-331 of process_ap: the feature xl, a tensor with its shape
ProcessApXl(crosslinks, asym_id, descriptions, num_res, perm) ==
    IF crosslinks.given
    THEN LET xl == process_xl_input(asym_id, crosslinks.v, descriptions)
         IN  IF xl.status # "ok" THEN xl
             ELSE LET binned == IF Len(xl.value) = 0 THEN Returned(Zeros(num_res))
                                ELSE bin_xl(xl.value, num_res, perm)
                  IN  IF binned.status # "ok" THEN binned
                      ELSE \* torch.unsqueeze(torch.tensor(xl), 0)
                           Returned([shape |-> <<1, num_res, num_res, 1>>,
                                     cells |-> binned.value])
    ELSE Returned([shape |-> <<num_res, num_res, 1>>, cells |-> Zeros(num_res)])

\* process_ap up to the feature and label processors, and its feature xl
process_ap(state, args, crosslinks, perm) ==
    LET recycling == ProcessRecycling(state, args.config, args.mode, args.seed,
                                      args.batch_idx)
        crop == ProcessCropSeed(recycling.state, args.seed, 0)
        num_res == Len(args.asym_id)
        xl == ProcessApXl(crosslinks, args.asym_id, args.descriptions, num_res, perm)
    IN  IF xl.status # "ok" THEN xl @@ [state_after |-> crop.state]
        ELSE [status |-> "ok",
              value |-> [num_recycling_iters |-> recycling.num_iters,
                         use_clamped_fape |-> IF recycling.use_clamped_fape THEN 1 ELSE 0,
                         is_distillation |-> 0,
                         crop_and_fix_size_seed |-> crop.value,
                         xl |-> xl.value],
              crosslinks |-> crosslinks.given,
              state_after |-> crop.state]

\* the per-residue asym_id of complexes of chains of one to MaxChainLen
\* residues, numbered from 1 in chain order
AsymIdOf(lens) ==
    [p \in 1..SumTo(lens, Len(lens)) |->
        CHOOSE c \in 1..Len(lens) : SumTo(lens, c - 1) < p /\ p <= SumTo(lens, c)]

ChainLens == {l \in SeqsUpTo(1..MaxChainLen, 2) : l # <<>>}

\* cross-link files over the chain descriptions "A" and "B"; fdr in
\* hundredths, off the bin boundaries
Fdrs == {2, 48}

XlPickles ==
    { <<>>,
      << <<"C", << <<"C", <<<<0, 0, 2>>>> >> >> >> >>,
      << <<"A", << <<"A", <<<<0, 0, 2>>>> >> >> >> >>,
      << <<"A", << <<"B", <<<<0, 0, 2>>, <<0, 0, 48>>>> >> >> >> >>,
      << <<"A", << <<"B", <<<<0, 0, 2>>>> >> >> >>,
         <<"B", << <<"A", <<<<0, 0, 48>>>> >>, <<"B", <<>> >> >> >> >> }

Descriptions == {<<"A">>, <<"A", "B">>}

\* any per-residue id sequence
AsymIdSeqs == SeqsUpTo(0..2, MaxAsymIds) \ {<<>>}

\* link lists over the cells of an array of XlRes residues
XlRows == (0..(XlRes - 1)) \X (0..(XlRes - 1)) \X Fdrs

XlCalls ==
    {[fn |-> "calculate_offsets", asym_ids |-> a] : a \in AsymIdSeqs}
    \cup {[fn |-> "process_xl_input", asym_id |-> AsymIdOf(l), xl_pickle |-> x,
           descriptions |-> d] : l \in ChainLens, x \in XlPickles, d \in Descriptions}
    \cup {[fn |-> "bin_xl", xl |-> x, num_res |-> XlRes]
            : x \in SeqsUpTo(XlRows, MaxLinks) \ {<<>>}}
    \cup {[fn |-> "process_ap", mode |-> m, seed |-> 0, batch_idx |-> 0,
           config |-> [max_recycling_iters |-> MaxRecyclingIters,
                       use_clamped_fape_prob |-> RngModulus \div 2],
           asym_id |-> AsymIdOf(l), descriptions |-> d]
            : m \in {"train", "eval"}, l \in ChainLens, d \in Descriptions}

CalculateOffsets ==
    /\ call.fn = "calculate_offsets"
    /\ result = NoResult
    /\ result' = Returned(calculate_offsets(call.asym_ids))
    /\ UNCHANGED <<dataset, call, cache, uses, np_state, earlier>>

ProcessXlInput ==
    /\ call.fn = "process_xl_input"
    /\ result = NoResult
    /\ result' = process_xl_input(call.asym_id, call.xl_pickle, call.descriptions)
    /\ UNCHANGED <<dataset, call, cache, uses, np_state, earlier>>

BinXl ==
    /\ call.fn = "bin_xl"
    /\ result = NoResult
    /\ \E perm \in ChainOrders(Len(call.xl)) :
          result' = bin_xl(call.xl, call.num_res, perm) @@ [order |-> perm]
    /\ UNCHANGED <<dataset, call, cache, uses, np_state, earlier>>

\* one call of process_ap on the example, with a cross-link file or none;
\* the result of the call before it is kept
ProcessAp ==
    /\ call.fn = "process_ap"
    /\ \E crosslinks \in {NotGiven} \cup {Given(x) : x \in XlPickles} :
          LET xl == IF crosslinks.given
                    THEN process_xl_input(call.asym_id, crosslinks.v, call.descriptions)
                    ELSE Returned(<<>>)
              n == IF xl.status = "ok" THEN Len(xl.value) ELSE 0
          IN  \E perm \in ChainOrders(n) :
                 LET r == process_ap(np_state, call, crosslinks, perm)
                 IN  /\ result' = r
                     /\ np_state' = r.state_after
    /\ earlier' = IF result = NoResult THEN earlier ELSE <<result>>
    /\ UNCHANGED <<dataset, call, cache, uses>>

InitXl ==
    /\ call \in XlCalls
    /\ result = NoResult
    /\ cache = <<>>
    /\ uses = <<>>
    /\ np_state = 0
    /\ earlier = <<>>
    /\ dataset = NoDataset

NextXl ==
    \/ CalculateOffsets
    \/ ProcessXlInput
    \/ BinXl
    \/ ProcessAp

SpecXl == InitXl /\ [][NextXl]_vars

(***************************************************************************)
(* UnifoldDataset and UnifoldMultimerDataset: construction, sample_chain   *)
(* and __getitem__                                                         *)
(***************************************************************************)
RECURSIVE SumValues(_, _)
SumValues(d, i) == IF i = 0 THEN 0 ELSE d[i][2] + SumValues(d, i - 1)

\* cal_sample_weight: the number of keys, the keys, and each key's
\* probability as the fraction <<weight, sum of the weights>>
cal_sample_weight(sample_weight) ==
    LET prot_keys == DictKeys(sample_weight)
        sum_weight == SumValues(sample_weight, Len(sample_weight))
    IN  [num_prot |-> Len(prot_keys),
         prot_keys |-> prot_keys,
         sample_prob |-> [i \in 1..Len(sample_weight) |-> <<sample_weight[i][2], sum_weight>>]]

\* line 369: disable_sd = True, whatever the argument
DisableSd(disable_sd) == TRUE

\* self.data_len
DataLen(max_step, batch_size, sample_weight) ==
    IF max_step.given THEN max_step.v * batch_size ELSE Len(sample_weight)

\* UnifoldDataset.__init__ with the files args names: the object, or the
\* exception of _inverse_map or of the weight lookup
UnifoldDatasetInit(args) ==
    LET inverse == inverse_map(args.multi_label)
    IN  IF inverse.status # "ok" THEN inverse
        ELSE IF \E i \in 1..Len(inverse.value) :
                    ~DictHas(args.sample_weight, inverse.value[i][2])
        THEN Raised("KeyError")
        ELSE LET disable_sd == DisableSd(args.disable_sd)
                 sample_weight == ChainSampleWeight(<<>>, inverse.value, args.sample_weight, 1)
                 sd_sample_weight ==
                     IF args.mode = "train" /\ args.sd_file.given /\ ~disable_sd
                     THEN args.sd_file ELSE NotGiven
                 seqs == cal_sample_weight(args.sample_weight)
                 chains == cal_sample_weight(sample_weight)
                 sd == IF sd_sample_weight.given
                       THEN cal_sample_weight(sd_sample_weight.v)
                       ELSE cal_sample_weight(<<>>)
             IN  Returned(
                   [class |-> "UnifoldDataset",
                    mode |-> args.mode,
                    seed |-> args.seed,
                    sd_prob |-> args.sd_prob,
                    multi_label |-> args.multi_label,
                    inverse_multi_label |-> inverse.value,
                    sample_weight |-> sample_weight,
                    seq_sample_weight |-> args.sample_weight,
                    sd_sample_weight |-> sd_sample_weight,
                    batch_size |-> args.batch_size,
                    data_len |-> DataLen(args.max_step, args.batch_size, sample_weight),
                    num_seq |-> seqs.num_prot,
                    seq_keys |-> seqs.prot_keys,
                    seq_sample_prob |-> seqs.sample_prob,
                    num_chain |-> chains.num_prot,
                    chain_keys |-> chains.prot_keys,
                    sample_prob |-> chains.sample_prob,
                    sd_num_chain |-> sd.num_prot,
                    sd_chain_keys |-> sd.prot_keys,
                    sd_sample_prob |-> sd.sample_prob,
                    pdb_assembly |-> <<>>,
                    pdb_chains |-> <<>>,
                    max_chains |-> 0])

\* UnifoldMultimerDataset.__init__
UnifoldMultimerDatasetInit(args) ==
    LET base == UnifoldDatasetInit(args)
    IN  IF base.status # "ok" THEN base
        ELSE LET self == base.value
                 pdb_chains == get_chains(self.inverse_multi_label)
                 filtered == filter_pdb_by_max_chains(pdb_chains, args.pdb_assembly,
                                 self.sample_weight, args.max_chains,
                                 self.inverse_multi_label)
                 chains == cal_sample_weight(filtered[2])
             IN  Returned(
                   IF self.mode = "train"
                   THEN [self EXCEPT !.class = "UnifoldMultimerDataset",
                                     !.pdb_assembly = args.pdb_assembly,
                                     !.max_chains = args.max_chains,
                                     !.pdb_chains = filtered[1],
                                     !.sample_weight = filtered[2],
                                     !.num_chain = chains.num_prot,
                                     !.chain_keys = chains.prot_keys,
                                     !.sample_prob = chains.sample_prob]
                   ELSE [self EXCEPT !.class = "UnifoldMultimerDataset",
                                     !.pdb_assembly = args.pdb_assembly,
                                     !.max_chains = args.max_chains,
                                     !.pdb_chains = pdb_chains])

\* __len__
DatasetLen(self) == self.data_len

\* np.random.choice(n, p=sample_prob): the index (from 0) the draw falls on
\* in the cumulative distribution, and the state after
Choice(state, n, sample_prob) ==
    IF n = 0 THEN [status |-> "ValueError", state |-> state]
    ELSE LET v == NextState(state)
             below == {i \in 1..n :
                          SumTo([k \in 1..n |-> sample_prob[k][1]], i) * RngModulus
                              <= v * sample_prob[1][2]}
         IN  [status |-> "ok",
              value |-> IF Cardinality(below) < n THEN Cardinality(below) ELSE n - 1,
              state |-> v]

\* np.random.choice(list): a uniform choice of an element
ChoiceOf(state, list) ==
    IF Len(list) = 0 THEN [status |-> "ValueError", state |-> state]
    ELSE [status |-> "ok",
          value |-> list[((NextState(state) * Len(list)) \div RngModulus) + 1],
          state |-> NextState(state)]

\* the train branch of sample_chain from inside the scope; sd_prob is in
\* units of 1 / RngModulus
SampleChainTrain(self, inside, sample_by_seq) ==
    LET bernoulli == Rand(inside)
        is_distillation == IF self.sd_sample_weight.given
                           THEN bernoulli.value < self.sd_prob ELSE FALSE
        drawn == IF self.sd_sample_weight.given THEN bernoulli.state ELSE inside
    IN  IF is_distillation
        THEN LET prot_idx == Choice(drawn, self.sd_num_chain, self.sd_sample_prob)
             IN  IF prot_idx.status # "ok" THEN Raised(prot_idx.status)
                 ELSE LET label_name == self.sd_chain_keys[prot_idx.value + 1]
                      IN  Returned(<<label_name, label_name, TRUE>>)
        ELSE IF ~sample_by_seq
        THEN LET prot_idx == Choice(drawn, self.num_chain, self.sample_prob)
             IN  IF prot_idx.status # "ok" THEN Raised(prot_idx.status)
                 ELSE LET label_name == self.chain_keys[prot_idx.value + 1]
                      IN  Returned(<<DictGet(self.inverse_multi_label, label_name),
                                     label_name, FALSE>>)
        ELSE LET seq_idx == Choice(drawn, self.num_seq, self.seq_sample_prob)
             IN  IF seq_idx.status # "ok" THEN Raised(seq_idx.status)
                 ELSE LET seq_name == self.seq_keys[seq_idx.value + 1]
                          label_name == ChoiceOf(seq_idx.state,
                                                 DictGet(self.multi_label, seq_name))
                      IN  IF label_name.status # "ok" THEN Raised(label_name.status)
                          ELSE Returned(<<seq_name, label_name.value, FALSE>>)

\* sample_chain: (seq_name, label_name, is_distillation) or the exception;
\* the global generator's state is the saved one when the scope is left
sample_chain(self, state, idx, sample_by_seq) ==
    IF self.mode = "train"
    THEN SampleChainTrain(self, NumpySeedEnter(state, self.seed, idx, "data_sample"),
                          sample_by_seq)
    ELSE IF idx >= Len(self.chain_keys) THEN Raised("IndexError")
    ELSE LET label_name == self.chain_keys[idx + 1]
         IN  Returned(<<DictGet(self.inverse_multi_label, label_name), label_name, FALSE>>)

\* UnifoldDataset.__getitem__ up to its call of load_and_process: the
\* arguments of that call
GetItemMonomer(self, state, idx) ==
    LET sampled == sample_chain(self, state, idx, TRUE)
    IN  IF sampled.status # "ok" THEN sampled
        ELSE Returned([batch_idx |-> idx \div self.batch_size,
                       data_idx |-> idx,
                       is_distillation |-> sampled.value[3],
                       sequence_ids |-> <<sampled.value[1]>>,
                       monomer_feature_dir |-> IF sampled.value[3] THEN "sd_features"
                                               ELSE PdbFeatures,
                       uniprot_msa_dir |-> None,
                       label_ids |-> <<sampled.value[2]>>,
                       label_dir |-> IF sampled.value[3] THEN "sd_labels" ELSE PdbLabels,
                       symmetry_operations |-> NotGiven,
                       is_monomer |-> TRUE])

\* the sequence ids of the label ids from the i-th on
RECURSIVE SiblingSequenceIds(_, _, _, _)
SiblingSequenceIds(acc, inverse_multi_label, label_ids, i) ==
    IF i > Len(label_ids) THEN Returned(acc)
    ELSE IF ~DictHas(inverse_multi_label, label_ids[i]) THEN Raised("KeyError")
    ELSE SiblingSequenceIds(Append(acc, DictGet(inverse_multi_label, label_ids[i])),
                            inverse_multi_label, label_ids, i + 1)

\* lines 562-574: the sibling label ids of a chain key, their symmetry
\* operations and their sequence ids
ResolveSiblings(self, label_id) ==
    LET pdb_id == get_pdb_name(label_id)
        in_assembly == DictHas(self.pdb_assembly, pdb_id) /\ self.mode = "train"
        entry == DictGet(self.pdb_assembly, pdb_id)
    IN  IF ~in_assembly /\ ~DictHas(self.pdb_chains, pdb_id) THEN Raised("KeyError")
        ELSE LET label_ids == IF in_assembly
                              THEN [i \in 1..Len(entry.chains) |->
                                       JoinChain(pdb_id, entry.chains[i])]
                              ELSE DictGet(self.pdb_chains, pdb_id)
                 symmetry_operations == IF in_assembly THEN Given(entry.opers)
                                        ELSE NotGiven
                 sequence_ids == SiblingSequenceIds(<<>>, self.inverse_multi_label,
                                                    label_ids, 1)
             IN  IF sequence_ids.status # "ok" THEN sequence_ids
                 ELSE Returned([sequence_ids |-> sequence_ids.value,
                                label_ids |-> label_ids,
                                symmetry_operations |-> symmetry_operations])

\* UnifoldMultimerDataset.__getitem__ up to its call of load_and_process:
\* the arguments of that call; line 550 sets is_distillation = False
GetItemMultimer(self, state, idx) ==
    LET sampled == sample_chain(self, state, idx, FALSE)
    IN  IF sampled.status # "ok" THEN sampled
        ELSE LET siblings == ResolveSiblings(self, sampled.value[2])
             IN  IF siblings.status # "ok" THEN siblings
                 ELSE Returned([batch_idx |-> idx \div self.batch_size,
                                data_idx |-> idx,
                                is_distillation |-> FALSE,
                                sampled |-> sampled.value[2],
                                sequence_ids |-> siblings.value.sequence_ids,
                                monomer_feature_dir |-> PdbFeatures,
                                uniprot_msa_dir |-> PdbUniprots,
                                label_ids |-> siblings.value.label_ids,
                                label_dir |-> PdbLabels,
                                symmetry_operations |-> siblings.value.symmetry_operations,
                                is_monomer |-> FALSE])


\* multi_label files in which p_A is a chain of sequence sA and the other
\* label ids are listed or not
DataMultiLabels ==
    LET owner == <<"sA", "sB", Absent>>
    IN  { MultiLabelOf([l \in LabelIds |->
              IF l = JoinChain(<<"p">>, <<"A">>) THEN "sA"
              ELSE IF l = JoinChain(<<"p">>, <<"B">>) THEN owner[b]
              ELSE IF l = JoinChain(<<"q">>, <<"A">>) THEN owner[c]
              ELSE IF l = <<"r">> THEN owner[d]
              ELSE Absent])
          : b \in 1..3, c \in 2..3, d \in 2..3 }

\* sd_train_sample_weight.json, when the file exists
SdSampleWeight == << <<<<"d">>, 1>>, <<<<"e">>, 3>> >>

\* what the program constructs its data sets from: the class, the
\* constructor's arguments and the files of data_path
DatasetCalls ==
    { [fn |-> "UnifoldDataset", mode |-> m, seed |-> sd, max_step |-> ms,
       disable_sd |-> d, sd_file |-> f, sd_prob |-> q, batch_size |-> BatchSize,
       multi_label |-> o, sample_weight |-> w,
       pdb_assembly |-> <<>>, max_chains |-> 0]
      : m \in {"train", "eval"}, sd \in 0..MaxSeed, ms \in {NotGiven, Given(1)},
        d \in BOOLEAN, f \in {NotGiven, Given(SdSampleWeight)},
        q \in {0, RngModulus \div 2}, o \in DataMultiLabels, w \in SampleWeightFiles }
    \cup
    { [fn |-> "UnifoldMultimerDataset", mode |-> m, seed |-> sd, max_step |-> NotGiven,
       disable_sd |-> FALSE, sd_file |-> NotGiven, sd_prob |-> 0, batch_size |-> BatchSize,
       multi_label |-> o, sample_weight |-> w,
       pdb_assembly |-> a, max_chains |-> n]
      : m \in {"train", "eval"}, sd \in 0..MaxSeed, o \in DataMultiLabels,
        w \in {<< <<SeqIdList[1], 1>>, <<SeqIdList[2], 3>> >>},
        a \in PdbAssemblies, n \in 1..MaxMaxChains }

ConstructDataset ==
    /\ call.fn = "UnifoldDataset"
    /\ dataset = NoDataset
    /\ result = NoResult
    /\ LET r == UnifoldDatasetInit(call)
       IN  /\ result' = [status |-> r.status, fn |-> "__init__", idx |-> 0]
           /\ dataset' = IF r.status = "ok" THEN r.value ELSE dataset
    /\ UNCHANGED <<call, cache, uses, np_state, earlier>>

ConstructMultimerDataset ==
    /\ call.fn = "UnifoldMultimerDataset"
    /\ dataset = NoDataset
    /\ result = NoResult
    /\ LET r == UnifoldMultimerDatasetInit(call)
       IN  /\ result' = [status |-> r.status, fn |-> "__init__", idx |-> 0]
           /\ dataset' = IF r.status = "ok" THEN r.value ELSE dataset
    /\ UNCHANGED <<call, cache, uses, np_state, earlier>>

\* sample_chain(idx) for an index of the data set
SampleChain ==
    /\ dataset # NoDataset
    /\ \E idx \in 0..MaxDataIdx, sample_by_seq \in BOOLEAN :
          /\ idx < DatasetLen(dataset)
          /\ result' = sample_chain(dataset, np_state, idx, sample_by_seq)
                          @@ [fn |-> "sample_chain", idx |-> idx]
    /\ UNCHANGED <<call, cache, uses, np_state, earlier, dataset>>

\* dataset[idx] of a UnifoldDataset, up to the call of load_and_process
GetItem ==
    /\ dataset # NoDataset
    /\ dataset.class = "UnifoldDataset"
    /\ \E idx \in 0..MaxDataIdx :
          /\ idx < DatasetLen(dataset)
          /\ result' = GetItemMonomer(dataset, np_state, idx)
                          @@ [fn |-> "__getitem__", idx |-> idx]
    /\ UNCHANGED <<call, cache, uses, np_state, earlier, dataset>>

\* dataset[idx] of a UnifoldMultimerDataset, up to the call of
\* load_and_process
MultimerGetItem ==
    /\ dataset # NoDataset
    /\ dataset.class = "UnifoldMultimerDataset"
    /\ \E idx \in 0..MaxDataIdx :
          /\ idx < DatasetLen(dataset)
          /\ result' = GetItemMultimer(dataset, np_state, idx)
                          @@ [fn |-> "__getitem__", idx |-> idx]
    /\ UNCHANGED <<call, cache, uses, np_state, earlier, dataset>>

InitData ==
    /\ call \in DatasetCalls
    /\ result = NoResult
    /\ cache = <<>>
    /\ uses = <<>>
    /\ np_state = 0
    /\ earlier = <<>>
    /\ dataset = NoDataset

NextData ==
    \/ ConstructDataset
    \/ ConstructMultimerDataset
    \/ SampleChain
    \/ GetItem
    \/ MultimerGetItem

SpecData == InitData /\ [][NextData]_vars

(***************************************************************************)
(* The specification of single calls.                                      *)
(***************************************************************************)
Calls == InverseMapCalls \cup FilterCalls

Init ==
    /\ call \in Calls
    /\ result = NoResult
    /\ cache = <<>>
    /\ uses = <<>>
    /\ np_state = 0
    /\ earlier = <<>>
    /\ dataset = NoDataset

Next ==
    \/ InverseMap
    \/ FilterPdbByMaxChains

Spec == Init /\ [][Next]_vars

(***************************************************************************)
(* Properties of _inverse_map.                                             *)
(***************************************************************************)
\* the sequence ids whose list holds the label id
ListedUnder(mapping, ref) ==
    {mapping[i][1] : i \in {j \in 1..Len(mapping) : ref \in Range(mapping[j][2])}}

ListedLabels(mapping) == UNION {Range(mapping[i][2]) : i \in 1..Len(mapping)}

\* C1: _inverse_map raises the assertion exactly when some label id is listed
\* under two distinct sequence ids; otherwise it returns a map whose keys are
\* the listed label ids, each mapped to the one sequence id that lists it (a
\* label repeated in one list is accepted).
C1_InverseMapContract ==
    (call.fn = "_inverse_map" /\ result # NoResult) =>
        IF \E ref \in ListedLabels(call.mapping) :
               Cardinality(ListedUnder(call.mapping, ref)) > 1
        THEN result.status = "AssertionError"
        ELSE /\ result.status = "ok"
             /\ IsDict(result.value)
             /\ Range(DictKeys(result.value)) = ListedLabels(call.mapping)
             /\ \A ref \in ListedLabels(call.mapping) :
                    ListedUnder(call.mapping, ref) = {DictGet(result.value, ref)}

\* a map was returned for two sequences, one of which lists a label twice
C1_Witness ==
    /\ call.fn = "_inverse_map"
    /\ result.status = "ok"
    /\ Len(call.mapping) = 2
    /\ \E i \in 1..2 : /\ Len(call.mapping[i][2]) = 2
                       /\ call.mapping[i][2][1] = call.mapping[i][2][2]
    /\ Len(result.value) = 2

(***************************************************************************)
(* Properties of filter_pdb_by_max_chains.                                 *)
(***************************************************************************)
\* C2: a structure of the assembly map is kept iff its assembly has at most
\* max_chains chains and every "<structure>_<chain>" id of it is a key of the
\* inverse label map; a structure absent from the assembly map is kept iff it
\* has exactly one chain; the returned weights are exactly the input chain
\* keys whose structure was kept, with their weights.
C2_FilterContract ==
    (call.fn = "filter_pdb_by_max_chains" /\ result # NoResult) =>
        LET kept == result.value[1]
            new_weight == result.value[2]
            asm == call.pdb_assembly
        IN  /\ result.status = "ok"
            /\ IsDict(kept)
            /\ \A i \in 1..Len(FilterPdbChains) :
                  LET pdb == FilterPdbChains[i][1]
                  IN  /\ DictHas(kept, pdb) <=>
                            IF DictHas(asm, pdb)
                            THEN /\ Len(DictGet(asm, pdb).chains) <= call.max_chains
                                 /\ \A c \in Range(DictGet(asm, pdb).chains) :
                                        DictHas(FilterInverse, JoinChain(pdb, c))
                            ELSE Len(FilterPdbChains[i][2]) = 1
                      /\ DictHas(kept, pdb) => DictGet(kept, pdb) = FilterPdbChains[i][2]
            /\ \A i \in 1..Len(kept) : DictHas(FilterPdbChains, kept[i][1])
            /\ IsDict(new_weight)
            /\ Range(new_weight) =
                  {kv \in Range(FilterSampleWeight) : DictHas(kept, get_pdb_name(kv[1]))}

\* one structure was dropped for its assembly size, one kept with all its
\* assembly chains labelled, and one kept as a single chain without assembly
C2_Witness ==
    /\ call.fn = "filter_pdb_by_max_chains"
    /\ result.status = "ok"
    /\ DictHas(call.pdb_assembly, <<"p">>)
    /\ DictHas(FilterPdbChains, <<"p">>)
    /\ Len(DictGet(call.pdb_assembly, <<"p">>).chains) > call.max_chains
    /\ ~DictHas(result.value[1], <<"p">>)
    /\ DictHas(call.pdb_assembly, <<"q">>)
    /\ Len(DictGet(call.pdb_assembly, <<"q">>).chains) = call.max_chains
    /\ DictHas(result.value[1], <<"q">>)
    /\ ~DictHas(call.pdb_assembly, <<"r">>)
    /\ DictHas(result.value[1], <<"r">>)
    /\ Len(result.value[2]) < Len(FilterSampleWeight)
    /\ Len(result.value[2]) >= 2

(***************************************************************************)
(* Properties of the feature cache.                                        *)
(***************************************************************************)
CacheKeySeq == [i \in 1..Len(cache) |-> cache[i].key]

\* the keys of the last 8 distinct calls, the least recent first
RecentUses == SubSeq(uses, IF Len(uses) > 8 THEN Len(uses) - 7 ELSE 1, Len(uses))

\* C4: the cache holds at most 8 entries, at most one per key, and they are
\* those of the 8 most recently called keys, a hit counting as a call: the
\* entry that leaves when a ninth key arrives is the least recently used, and
\* the entry next to leave is always the least recently used one.
C4_LruCache ==
    /\ Len(cache) <= 8
    /\ \A i, j \in 1..Len(cache) : cache[i].key = cache[j].key => i = j
    /\ Range(CacheKeySeq) = Range(RecentUses)
    /\ cache # <<>> => cache[1].key = RecentUses[1]

\* a ninth key has arrived and the least recently used entry has left, after
\* a hit had made the oldest entry the most recent but one
C4_Witness ==
    /\ Len(uses) = 9
    /\ Len(cache) = 8
    /\ ~CacheHas(cache, uses[1])
    /\ uses[1] = CacheKey(LruSeqIds[2], PdbFeatures, None, TRUE)
    /\ uses[8] = CacheKey(LruSeqIds[1], PdbFeatures, None, TRUE)
    /\ result.value.key = uses[9]

(***************************************************************************)
(* Properties of load_single_label.                                        *)
(***************************************************************************)
\* C6 as claimed: the returned record has exactly the four keys, and the
\* call fails when the file lacks one of them.
C6_ExactlyFourKeysOrError ==
    (call.fn = "load_single_label" /\ result # NoResult) =>
        IF LabelKeys \subseteq DOMAIN call.stored
        THEN result.status = "ok" /\ DOMAIN result.value = LabelKeys
        ELSE result.status # "ok"

\* C6: the returned record holds the stored keys among the four, and no
\* other; the call fails only when a symmetry operation is given and
\* all_atom_positions is not stored; the values are the stored ones, the
\* positions with the operation applied.
C6_ProjectsStoredKeys ==
    (call.fn = "load_single_label" /\ result # NoResult) =>
        IF call.symmetry_operation # OpNone
           /\ "all_atom_positions" \notin DOMAIN call.stored
        THEN result.status = "KeyError"
        ELSE /\ result.status = "ok"
             /\ DOMAIN result.value = DOMAIN call.stored \cap LabelKeys
             /\ \A k \in DOMAIN result.value :
                   result.value[k] =
                      IF k = "all_atom_positions" /\ call.symmetry_operation = OpRT
                      THEN <<1 - call.stored[k][2], call.stored[k][1], call.stored[k][3]>>
                      ELSE call.stored[k]

\* a record without resolution was returned from a file without it, its
\* other keys dropped
C6_Witness ==
    /\ call.fn = "load_single_label"
    /\ result.status = "ok"
    /\ DOMAIN call.stored = {"aatype", "all_atom_positions", "all_atom_mask", "chain_id"}
    /\ call.symmetry_operation = OpRT
    /\ DOMAIN result.value = {"aatype", "all_atom_positions", "all_atom_mask"}

(***************************************************************************)
(* Properties of load.                                                     *)
(***************************************************************************)
\* C3: every record load_single_feature hands out is the record as loaded
\* from the files, also when an earlier load merged label fields and
\* bookkeeping fields into the records it had received for the same keys and
\* the entries are still cached; the cached records stay as loaded too.
C3_IndependentCopies ==
    (call.fn = "load" /\ result # NoResult) =>
        /\ \A i \in 1..Len(call.sequence_ids) :
              result.loaded[i] =
                 load_single_feature_body(call.sequence_ids[i], call.monomer_feature_dir,
                                          call.uniprot_msa_dir, call.is_monomer)
        /\ \A e \in 1..Len(cache) :
              cache[e].value =
                 load_single_feature_body(cache[e].key[1], cache[e].key[2],
                                          cache[e].key[3], cache[e].key[4])

\* a load of two chains found both records cached, after a load of the same
\* chains that had merged their labels into the records it received
C3_Witness ==
    /\ call.fn = "load"
    /\ call.label_ids.given
    /\ result.status = "ok"
    /\ Len(call.sequence_ids) = 2
    /\ result.hits = 2
    /\ "all_atom_positions" \in DOMAIN result.value.features
    /\ "all_atom_positions" \notin DOMAIN result.loaded[1]

\* the operations load applies to the labels: the given ones, or "I" each
C10_Operations ==
    IF call.symmetry_operations.given THEN call.symmetry_operations.v
    ELSE [i \in 1..Len(call.label_ids.v) |-> OpI]

\* the label of the chain loaded o-th, as load_single_label is to return it
C10_Label(o) ==
    LET stored == LabelPickle(call.label_dir, call.label_ids.v[o])
        pos == stored.all_atom_positions
    IN  [aatype             |-> stored.aatype,
         all_atom_positions |-> IF C10_Operations[o] = OpRT
                                THEN <<1 - pos[2], pos[1], pos[3]>>
                                ELSE pos,
         all_atom_mask      |-> stored.all_atom_mask,
         resolution         |-> stored.resolution]

\* C10: when load returns with labels requested, for every order in which
\* add_assembly_features leaves the chains, labels[i] holds the four label
\* fields of the chain at final position i, with the symmetry operation of
\* that chain's original position applied, and asym_len[i] is that chain's
\* seq_length; when label_ids and sequence_ids differ in length, load raises
\* the assertion before it reads any label file.
C10_LabelsInFinalOrder ==
    (call.fn = "load" /\ call.label_ids.given /\ result # NoResult) =>
        IF Len(call.label_ids.v) # Len(call.sequence_ids)
        THEN result.status = "AssertionError" /\ result.label_reads = 0
        ELSE result.status = "ok" =>
                /\ result.value.labels.given
                /\ Len(result.value.labels.v) = Len(call.sequence_ids)
                /\ Len(result.value.features.asym_len) = Len(call.sequence_ids)
                /\ \A i \in 1..Len(call.sequence_ids) :
                      /\ result.value.labels.v[i] = C10_Label(result.order[i])
                      /\ result.value.features.asym_len[i] =
                            SeqLength(call.sequence_ids[result.order[i]])

\* load returned the labels of two different chains that
\* add_assembly_features had swapped, the first loaded under a rotation
C10_Witness ==
    /\ call.fn = "load"
    /\ call.label_ids.given
    /\ result.status = "ok"
    /\ result.order = <<2, 1>>
    /\ call.sequence_ids[1] # call.sequence_ids[2]
    /\ call.label_ids.v[1] # call.label_ids.v[2]
    /\ call.symmetry_operations.given
    /\ call.symmetry_operations.v = <<OpRT, OpI>>
    /\ result.value.labels.v[2].all_atom_positions[1] = -1
    /\ result.value.features.asym_len = <<SeqLength(call.sequence_ids[2]),
                                          SeqLength(call.sequence_ids[1])>>

(***************************************************************************)
(* Properties of process.                                                  *)
(***************************************************************************)
\* C5: in train mode a call of process with the (seed, batch_idx) of the
\* first call yields the first call's num_recycling_iters and
\* use_clamped_fape, whatever was drawn from the global generator before and
\* between them, and the generator's state after the scoped draws is the
\* state before them.
C5_ReproducibleRecycling ==
    (call.fn = "process" /\ call.mode = "train" /\ result # NoResult) =>
        /\ (result.seed = earlier[1].seed /\ result.batch_idx = earlier[1].batch_idx) =>
              /\ result.value.num_recycling_iters = earlier[1].value.num_recycling_iters
              /\ result.value.use_clamped_fape = earlier[1].value.use_clamped_fape
        /\ result.state_recycled = result.state_before
        /\ result.state_after = result.state_before

\* a second call with the first call's seed and batch index, for another
\* example and from another generator state, drew the same values
C5_Witness ==
    /\ call.fn = "process"
    /\ call.mode = "train"
    /\ result # NoResult
    /\ result.seed = earlier[1].seed
    /\ result.batch_idx = earlier[1].batch_idx
    /\ result.state_before # earlier[1].state_before
    /\ result.data_idx # earlier[1].data_idx
    /\ result.value.num_recycling_iters > 0
    /\ result.value.num_recycling_iters = earlier[1].value.num_recycling_iters

(***************************************************************************)
(* Properties of the cross-link feature builder.                           *)
(***************************************************************************)
\* the distinct ids of a per-residue id sequence, ascending
IdsAscending(a) ==
    LET ids == {a[p] : p \in 1..Len(a)}
    IN  [i \in 1..Cardinality(ids) |->
            CHOOSE u \in ids : Cardinality({v \in ids : v < u}) = i - 1]

\* the index, from 0, of the first residue with id u
FirstIndex(a, u) ==
    (CHOOSE p \in 1..Len(a) : a[p] = u /\ \A q \in 1..(p - 1) : a[q] # u) - 1

\* the distinct ids in the order in which they first appear
IdsByAppearance(a) ==
    LET ids == {a[p] : p \in 1..Len(a)}
    IN  [i \in 1..Cardinality(ids) |->
            CHOOSE u \in ids :
                Cardinality({v \in ids : FirstIndex(a, v) < FirstIndex(a, u)}) = i - 1]

\* the residues of every id are contiguous and the ids ascend
IsNonDecreasing(a) == \A p \in 1..(Len(a) - 1) : a[p] <= a[p + 1]

\* C9 as claimed: for any id sequence the offsets have one element more than
\* there are distinct ids, start at 0, and their i-th element is the index
\* at which the residues of the i-th chain begin, the chains counted in
\* ascending id order or in order of appearance.
C9_OffsetsAreChainStarts ==
    (call.fn = "calculate_offsets" /\ result # NoResult) =>
        LET a == call.asym_ids
            n == Cardinality({a[p] : p \in 1..Len(a)})
            offsets == result.value
        IN  /\ result.status = "ok"
            /\ Len(offsets) = n + 1
            /\ offsets[1] = 0
            /\ \/ \A i \in 1..n : offsets[i] = FirstIndex(a, IdsAscending(a)[i])
               \/ \A i \in 1..n : offsets[i] = FirstIndex(a, IdsByAppearance(a)[i])

\* where the i-th chain (from 0) of a sequence with contiguous, ascending
\* ids begins; the chain after the last begins at the end
ChainStart(a, i) ==
    IF i < Len(IdsAscending(a)) THEN FirstIndex(a, IdsAscending(a)[i + 1]) ELSE Len(a)

\* the rows expected of the description pairs from (i, j) on
RECURSIVE ExpectedLinksFrom(_, _, _, _, _)
ExpectedLinksFrom(xl_pickle, a, descriptions, i, j) ==
    IF i >= Len(descriptions) THEN <<>>
    ELSE IF j >= Len(descriptions) THEN ExpectedLinksFrom(xl_pickle, a, descriptions, i + 1, 0)
    ELSE LET here == {k \in 1..Len(xl_pickle) : xl_pickle[k][1] = descriptions[i + 1]}
             there == IF here = {} THEN {}
                      ELSE LET inner == xl_pickle[CHOOSE k \in here : TRUE][2]
                           IN  {inner[k][2] : k \in {m \in 1..Len(inner) :
                                                        inner[m][1] = descriptions[j + 1]}}
             links == IF there = {} THEN <<>> ELSE CHOOSE l \in there : TRUE
         IN  [k \in 1..Len(links) |-> <<links[k][1] + ChainStart(a, i),
                                        links[k][2] + ChainStart(a, j),
                                        links[k][3]>>]
             \o ExpectedLinksFrom(xl_pickle, a, descriptions, i, j + 1)

\* C9: for any id sequence the offsets have one element more than there are
\* distinct ids, start at 0, and grow by the residue count of each id in
\* ascending id order; when the ids never decrease along the sequence, the
\* i-th element is the index at which the residues of the i-th chain begin.
\* create_xl_features shifts the start of every entry of the i-th and j-th
\* chain descriptions by offsets[i] and its end by offsets[j].
C9_OffsetsAreCumulativeCounts ==
    /\ (call.fn = "calculate_offsets" /\ result # NoResult) =>
          LET a == call.asym_ids
              ids == IdsAscending(a)
              n == Len(ids)
              offsets == result.value
          IN  /\ result.status = "ok"
              /\ Len(offsets) = n + 1
              /\ offsets[1] = 0
              /\ \A i \in 1..n :
                    offsets[i + 1] - offsets[i]
                        = Cardinality({p \in 1..Len(a) : a[p] = ids[i]})
              /\ IsNonDecreasing(a) =>
                    \A i \in 1..n : offsets[i] = FirstIndex(a, ids[i])
    /\ (call.fn = "process_xl_input" /\ result # NoResult) =>
          /\ result.status = "ok"
          /\ result.value = ExpectedLinksFrom(call.xl_pickle, call.asym_id,
                                              call.descriptions, 0, 0)

\* the offsets of two residues of chain 0 followed by three of chain 1
C9_Witness ==
    /\ call.fn = "calculate_offsets"
    /\ call.asym_ids = <<0, 0, 1, 1, 1>>
    /\ result = Returned(<<0, 2, 5>>)

\* the cells the entries of a link list name, either way round
NamedCells(xl) == {<<xl[k][1], xl[k][2]>> : k \in 1..Len(xl)}
                    \cup {<<xl[k][2], xl[k][1]>> : k \in 1..Len(xl)}

\* C8: for every link list and every order of the permutation, bin_xl's
\* output has output[i,j,0] = output[j,i,0] for all residues i and j, every
\* cell no entry names is 0, and a named cell holds the bin of one of the
\* entries that name it.
C8_BinXlSymmetric ==
    (call.fn = "bin_xl" /\ result # NoResult) =>
        /\ result.status = "ok"
        /\ \A i, j \in 0..(call.num_res - 1) :
              /\ result.value[<<i, j>>] = result.value[<<j, i>>]
              /\ <<i, j>> \notin NamedCells(call.xl) => result.value[<<i, j>>] = 0
              /\ <<i, j>> \in NamedCells(call.xl) =>
                    \E k \in 1..Len(call.xl) :
                        /\ {call.xl[k][1], call.xl[k][2]} = {i, j}
                        /\ result.value[<<i, j>>]
                              = Cardinality({b \in 0..20 : 5 * b < 100 - call.xl[k][3]})

\* a list naming the cell (0, 1) twice and the cell (1, 0) with another fdr,
\* processed in an order that ends with the entry for (1, 0)
C8_Witness ==
    /\ call.fn = "bin_xl"
    /\ call.xl = <<<<0, 1, 2>>, <<1, 0, 48>>, <<0, 1, 2>>>>
    /\ result # NoResult
    /\ result.status = "ok"
    /\ result.order = <<3, 1, 2>>
    /\ result.value[<<0, 1>>] = 11
    /\ result.value[<<1, 0>>] = 11
    /\ result.value[<<0, 0>>] = 0

\* C7 as claimed: process_ap attaches the feature xl, and on the same
\* example the tensor of a call has the shape of the tensor of the call
\* before it, whether either was given a cross-link file, one with entries
\* for the example's chains or one without, or none.
C7_XlSameShape ==
    (/\ call.fn = "process_ap"
     /\ result # NoResult
     /\ result.status = "ok"
     /\ earlier # <<>>
     /\ earlier[1].status = "ok") =>
        /\ "xl" \in DOMAIN result.value
        /\ "xl" \in DOMAIN earlier[1].value
        /\ result.value.xl.shape = earlier[1].value.xl.shape

(***************************************************************************)
(* Properties of the data sets.                                            *)
(***************************************************************************)
\* C11 as claimed: a data set constructed in train mode with the
\* self-distillation weight file present and disable_sd = False holds a
\* self-distillation table, and sample_chain then draws is_distillation as
\* the draw falls below sd_prob; without a table, or in eval mode,
\* sample_chain returns is_distillation = False.
C11_SelfDistillationTable ==
    dataset # NoDataset =>
        /\ (call.mode = "train" /\ call.sd_file.given /\ ~call.disable_sd) =>
              dataset.sd_sample_weight.given
        /\ (result.fn = "sample_chain" /\ result.status = "ok") =>
              /\ (~dataset.sd_sample_weight.given \/ dataset.mode = "eval") =>
                    result.value[3] = FALSE
              /\ (dataset.sd_sample_weight.given /\ dataset.mode = "train") =>
                    result.value[3] =
                        (Rand(NumpySeedEnter(np_state, dataset.seed, result.idx,
                                             "data_sample")).value < dataset.sd_prob)

\* the sequence id under which the multi_label file lists the label id
OwningSequence(multi_label, label_id) ==
    multi_label[CHOOSE i \in 1..Len(multi_label) :
                    \E k \in 1..Len(multi_label[i][2]) : multi_label[i][2][k] = label_id][1]

\* C13 as claimed: in eval mode sample_chain(idx), for every idx from 0 below
\* len(dataset), returns without error the idx-th chain key and its owning
\* sequence id, with a max_step cap and without one.
C13_EvalIndexInRange ==
    (/\ dataset # NoDataset
     /\ dataset.mode = "eval"
     /\ result.fn = "sample_chain") =>
        /\ result.status = "ok"
        /\ result.value[2] = dataset.chain_keys[result.idx + 1]
        /\ result.value[1] = OwningSequence(call.multi_label, result.value[2])
        /\ result.value[3] = FALSE

\* the key set of a dict
KeySet(d) == {d[i][1] : i \in 1..Len(d)}

\* the sibling label ids __getitem__ is to resolve for a chain key, read
\* from the data set's tables
SiblingsOf(self, label_id) ==
    LET pdb_id == SubSeq(label_id, 1,
                         (CHOOSE n \in 1..(Len(label_id) + 1) :
                              /\ n = Len(label_id) + 1 \/ label_id[n] = "_"
                              /\ \A k \in 1..(n - 1) : label_id[k] # "_") - 1)
    IN  IF pdb_id \in KeySet(self.pdb_assembly)
        THEN LET chains == self.pdb_assembly[CHOOSE i \in 1..Len(self.pdb_assembly) :
                                                 self.pdb_assembly[i][1] = pdb_id][2].chains
             IN  [k \in 1..Len(chains) |-> pdb_id \o <<"_">> \o chains[k]]
        ELSE self.pdb_chains[CHOOSE i \in 1..Len(self.pdb_chains) :
                                 self.pdb_chains[i][1] = pdb_id][2]

\* what C12 states, but for the sibling list being non-empty
C12_Resolves ==
    (/\ dataset # NoDataset
     /\ dataset.class = "UnifoldMultimerDataset"
     /\ dataset.mode = "train") =>
        /\ \A k \in KeySet(dataset.sample_weight) :
              /\ get_pdb_name(k) \in KeySet(dataset.pdb_assembly) \cup KeySet(dataset.pdb_chains)
              /\ \A i \in 1..Len(SiblingsOf(dataset, k)) :
                    SiblingsOf(dataset, k)[i] \in KeySet(dataset.inverse_multi_label)
        /\ result.fn = "__getitem__" =>
              /\ result.status \in {"ok", "ValueError"}
              /\ result.status = "ValueError" => dataset.sample_weight = <<>>
              /\ result.status = "ok" =>
                    /\ result.value.sampled \in KeySet(dataset.sample_weight)
                    /\ result.value.label_ids = SiblingsOf(dataset, result.value.sampled)
                    /\ Len(result.value.label_ids) = Len(result.value.sequence_ids)
                    /\ \A i \in 1..Len(result.value.label_ids) :
                          result.value.sequence_ids[i]
                              = OwningSequence(call.multi_label, result.value.label_ids[i])

\* C12 as claimed: after construction of a multimer data set in train mode,
\* for every key of the filtered sample-weight table the sibling label-id
\* list is non-empty and each of its ids is a key of the inverse label map,
\* so the lookup of the sibling sequence ids never fails, and __getitem__
\* passes as many label ids as sequence ids.
C12_SiblingsNonEmpty ==
    /\ C12_Resolves
    /\ (/\ dataset # NoDataset
        /\ dataset.class = "UnifoldMultimerDataset"
        /\ dataset.mode = "train") =>
          \A k \in KeySet(dataset.sample_weight) : SiblingsOf(dataset, k) # <<>>

\* C12: after construction of a multimer data set in train mode, for every
\* key of the filtered sample-weight table each id of the sibling label-id
\* list is a key of the inverse label map, so the lookup of the sibling
\* sequence ids never fails, and __getitem__ passes as many label ids as
\* sequence ids; the list is empty exactly when the assembly map lists no
\* chain for the key's structure.
C12_SiblingsResolve ==
    /\ C12_Resolves
    /\ (/\ dataset # NoDataset
        /\ dataset.class = "UnifoldMultimerDataset"
        /\ dataset.mode = "train") =>
          \A k \in KeySet(dataset.sample_weight) :
              (SiblingsOf(dataset, k) = <<>>) <=>
                  \E i \in 1..Len(call.pdb_assembly) :
                      /\ call.pdb_assembly[i][1] = get_pdb_name(k)
                      /\ call.pdb_assembly[i][2].chains = <<>>

\* __getitem__ resolved the two chains of an assembly and their sequences
\* in a data set from which the filter removed chains
C12_Witness ==
    /\ dataset # NoDataset
    /\ dataset.class = "UnifoldMultimerDataset"
    /\ dataset.mode = "train"
    /\ result.fn = "__getitem__"
    /\ result.status = "ok"
    /\ Len(result.value.label_ids) = 2
    /\ result.value.sequence_ids = <<"sA", "sB">>
    /\ result.value.symmetry_operations.given
    /\ Len(dataset.sample_weight) < Len(dataset.inverse_multi_label)

====
